---- MODULE Spec2Model ----
(***************************************************************************)
(* Model of emcee's parallel-tempered ensemble sampler                     *)
(* (src/emcee/ptsampler.py): the PTSampler object, the generator returned  *)
(* by PTSampler.sample, the replica exchange of _temperature_swaps, and    *)
(* reset.                                                                  *)
(*                                                                         *)
(* Numbers.  Log-likelihoods, log-priors and log-posteriors are IEEE       *)
(* doubles in the program.  A value is modelled as a pair <<kind, n>>:     *)
(* <<"fin", n>> is the finite number n, <<"ninf", 0>> and <<"pinf", 0>>    *)
(* the two infinities and <<"nan", 0>> not-a-number, with the IEEE rules   *)
(* for sums, products and comparisons of infinities and NaN.  Finite       *)
(* arithmetic is exact (rounding is not modelled).  The inverse            *)
(* temperatures are rationals n/BetaDen held as their numerators n, and    *)
(* every log-posterior is held in units of 1/BetaDen, so that              *)
(* beta*lnlike + lnprior is the integer n*lnlike + BetaDen*lnprior.        *)
(***************************************************************************)
EXTENDS Integers, Sequences, FiniteSets, TLC

\* ---------------------------------------------------------------- bounds
MaxIter == 2
MaxThin == 2
MaxCalls == 2
MaxStored == 3

\* ------------------------------------------------- sampler configuration
NTemps == 3
NWalkers == 2
BetaDen == 4

Rungs == 0 .. (NTemps - 1)
Walkers == 0 .. (NWalkers - 1)

\* ---------------------------------------------------- IEEE-like numbers
Fin(n) == <<"fin", n>>
NInf == <<"ninf", 0>>
PInf == <<"pinf", 0>>
NaN == <<"nan", 0>>

IsFin(a) == a[1] = "fin"
IsNaN(a) == a[1] = "nan"

FNeg(a) ==
    CASE a[1] = "fin" -> Fin(0 - a[2])
      [] a[1] = "ninf" -> PInf
      [] a[1] = "pinf" -> NInf
      [] OTHER -> NaN

FAdd(a, b) ==
    CASE IsNaN(a) \/ IsNaN(b) -> NaN
      [] IsFin(a) /\ IsFin(b) -> Fin(a[2] + b[2])
      [] IsFin(a) -> b
      [] IsFin(b) -> a
      [] a = b -> a
      [] OTHER -> NaN

FSub(a, b) == FAdd(a, FNeg(b))

\* k is a finite integer factor (a beta or a difference of betas).
FScale(k, a) ==
    CASE IsNaN(a) -> NaN
      [] IsFin(a) -> Fin(k * a[2])
      [] k = 0 -> NaN
      [] k > 0 -> a
      [] OTHER -> FNeg(a)

\* a < b; every comparison with NaN is false.
FLess(a, b) ==
    CASE IsNaN(a) \/ IsNaN(b) -> FALSE
      [] IsFin(a) /\ IsFin(b) -> a[2] < b[2]
      [] a = b -> FALSE
      [] OTHER -> a = NInf \/ b = PInf

FGreater(a, b) == FLess(b, a)

\* ------------------------------------------- caller-supplied functions
\* Positions are points of a one-dimensional parameter space (dim = 1).
\* Position 3 lies outside the prior's support.  0 is no position, so a
\* zero-filled buffer slot differs from every recorded state.
Positions == {1, 2, 3}

logp_fn(x) == CASE x = 1 -> Fin(0) [] x = 2 -> Fin(1) [] OTHER -> NInf
logl_fn(x) == CASE x = 1 -> Fin(-1) [] x = 2 -> Fin(-3) [] OTHER -> Fin(-5)

\* Mutant of PTPost: the likelihood is evaluated before the prior is tested.
PTPost_eager(b, x) ==
    LET lp == logp_fn(x)
        ll == logl_fn(x)
    IN  IF lp = NInf
        THEN <<lp, lp, <<"logp", "logl">>>>
        ELSE <<FAdd(FScale(b, ll), FScale(BetaDen, lp)), ll, <<"logp", "logl">>>>

\* PTPost.__call__: (lnpost, lnlike) at inverse temperature b/BetaDen; the
\* third component lists the caller-supplied functions it invoked, in order.
PTPost(b, x) ==
    LET lp == logp_fn(x)
    IN  IF lp = NInf
        THEN <<lp, lp, <<"logp">>>>
        ELSE LET ll == logl_fn(x)
             IN  <<FAdd(FScale(b, ll), FScale(BetaDen, lp)), ll, <<"logp", "logl">>>>

\* ------------------------------------------------------------- state
VARIABLES
    betas,            \* self._betas: numerators of the ladder, by rung
    chain,            \* self._chain
    lnprobChain,      \* self._lnprob
    lnlikeChain,      \* self._lnlikelihood
    nswap,            \* self.nswap
    nswap_accepted,   \* self.nswap_accepted
    p, lnprob, logl,  \* the arrays of the running generator (p is p0 itself)
    iterations, thin, storechain, isave,   \* arguments and locals of sample
    i, j,             \* loop indices of sample (lines 197, 198)
    si, sj,           \* loop indices i, j of _temperature_swaps
    pc,               \* where the generator stands
    ncalls,           \* number of sample calls started
    yields,           \* triples the current call has yielded
    events,           \* what the current iteration has done so far, in order
    recIter,          \* per chain slot: the iteration (1-based) of the call that
                      \* recorded it, 0 while the slot was never written
    recCall,          \* per chain slot: the call that allocated it
    shown,            \* per chain slot: the triple yielded by the recording iteration
    okBefore,         \* whether the state entering the last exchange was consistent
    lastOp,           \* the operation that produced this state
    want,             \* sum of floor(iterations/thin) over the storing calls since reset
    dropped,          \* a storing call since reset ended before it was exhausted
    rng,              \* state of the pseudo-random generator behind nr.randint, nr.rand
    acor,             \* the module global acor: TRUE if the import of line 2 succeeded
    swept,            \* exchange calls completed since construction or the last reset
    out               \* what the last query of the caller returned or raised

vars == <<betas, chain, lnprobChain, lnlikeChain, nswap, nswap_accepted,
          p, lnprob, logl, iterations, thin, storechain, isave, i, j, si, sj,
          pc, ncalls, yields, events, recIter, recCall, shown, okBefore,
          lastOp, want, dropped, rng, acor, swept, out>>

\* A buffer is absent (None) or holds one grid per stored step.
None == [present |-> FALSE, steps |-> <<>>]
Buffer(s) == [present |-> TRUE, steps |-> s]

Grid(v) == [r \in Rungs |-> [w \in Walkers |-> v]]
RECURSIVE Zeros(_, _)
Zeros(n, v) == IF n = 0 THEN <<>> ELSE <<Grid(v)>> \o Zeros(n - 1, v)
ZeroCounters == [r \in Rungs |-> 0]

\* Ladders a caller may supply (betas = 1, 1/2, 1/4 and 1, 1, 1/2).
Ladders ==
    { [r \in Rungs |-> CASE r = 0 -> 4 [] r = 1 -> 2 [] OTHER -> 1],
      [r \in Rungs |-> CASE r = 0 -> 4 [] r = 1 -> 4 [] OTHER -> 2] }

\* Initial positions a caller may supply: one walker of the coldest rung
\* starts outside the prior's support, or every walker starts inside it.
P0Outside == [r \in Rungs |-> [w \in Walkers |->
                IF r = 0 /\ w = 1 THEN 3 ELSE IF (r + w) % 2 = 0 THEN 1 ELSE 2]]
P0Inside == [r \in Rungs |-> [w \in Walkers |-> IF (r + w) % 2 = 0 THEN 1 ELSE 2]]
P0s == {P0Outside, P0Inside}

\* No query has been made, or the sampler has acted since the last one.
NoOut == [op |-> "none"]

\* PTSampler.__init__
InitSampler ==
    /\ betas \in Ladders
    /\ chain = None /\ lnprobChain = None /\ lnlikeChain = None
    /\ nswap = ZeroCounters /\ nswap_accepted = ZeroCounters
    /\ p = Grid(0) /\ lnprob = Grid(Fin(0)) /\ logl = Grid(Fin(0))
    /\ iterations = 0 /\ thin = 1 /\ storechain = FALSE /\ isave = 0
    /\ i = 0 /\ j = 0 /\ si = 0 /\ sj = 0
    /\ pc = "idle"
    /\ ncalls = 0 /\ yields = 0 /\ events = <<>>
    /\ recIter = <<>> /\ recCall = <<>> /\ shown = <<>>
    /\ okBefore = TRUE
    /\ lastOp = "init" /\ want = 0 /\ dropped = FALSE
    /\ swept = 0 /\ out = NoOut

\* ------------------------------------------------- sample: set-up
\* Mutant of nsave: the thinning is forgotten when the buffers are sized.
nsave_unthinned(its, th) == its

\* Line 184 (Python 2 integer division).
nsave(its, th) == its \div th

\* Mutant of Expand: a later call allocates a fresh zero buffer of the new
\* length instead of concatenating onto the old one.
Expand_fresh(buf, n, v) ==
    Buffer(Zeros((IF ~buf.present THEN 0 ELSE Len(buf.steps)) + n, v))

\* Lines 185-195: allocate, or extend along the step axis.
Expand(buf, n, v) ==
    IF ~buf.present THEN Buffer(Zeros(n, v)) ELSE Buffer(buf.steps \o Zeros(n, v))

\* Lines 186, 191.
FirstSlot(buf) == IF ~buf.present THEN 0 ELSE Len(buf.steps)

\* Lines 166-177: the posterior of every walker at its rung's beta.
InitialPost(p0) == [r \in Rungs |-> [w \in Walkers |-> PTPost(betas[r], p0[r][w])[1]]]
InitialLike(p0) == [r \in Rungs |-> [w \in Walkers |-> PTPost(betas[r], p0[r][w])[2]]]

RECURSIVE Fill(_, _)
Fill(n, v) == IF n = 0 THEN <<>> ELSE <<v>> \o Fill(n - 1, v)

NoTriple == [p |-> Grid(0), lnprob |-> Grid(Fin(0)), logl |-> Grid(Fin(0))]

\* Mutant of Begin: every call starts its swap counters from zero.
Begin_zeroes_counters(its, th, store, fresh, p0) ==
    /\ pc \in {"idle", "done", "error"}
    /\ ncalls < MaxCalls
    /\ fresh \/ yields > 0
    /\ store => FirstSlot(chain) + nsave(its, th) <= MaxStored
    /\ IF fresh
       THEN /\ p' = p0
            /\ lnprob' = InitialPost(p0)
            /\ logl' = InitialLike(p0)
       ELSE UNCHANGED <<p, lnprob, logl>>
    /\ iterations' = its /\ thin' = th /\ storechain' = store
    /\ IF store
       THEN /\ isave' = FirstSlot(chain)
            /\ chain' = Expand(chain, nsave(its, th), 0)
            /\ lnprobChain' = Expand(lnprobChain, nsave(its, th), Fin(0))
            /\ lnlikeChain' = Expand(lnlikeChain, nsave(its, th), Fin(0))
            /\ recIter' = recIter \o Fill(nsave(its, th), 0)
            /\ recCall' = recCall \o Fill(nsave(its, th), ncalls + 1)
            /\ shown' = shown \o Fill(nsave(its, th), NoTriple)
            /\ want' = want + (its \div th)
       ELSE /\ isave' = 0
            /\ UNCHANGED <<chain, lnprobChain, lnlikeChain, recIter, recCall, shown, want>>
    /\ i' = 0 /\ j' = 0
    /\ pc' = IF 0 < its THEN "advance" ELSE "done"
    /\ ncalls' = ncalls + 1 /\ yields' = 0 /\ events' = <<>>
    /\ lastOp' = "begin"
    /\ nswap' = ZeroCounters /\ nswap_accepted' = ZeroCounters
    /\ UNCHANGED <<betas, okBefore, si, sj, dropped>>

\* The first next() on the generator of sample(...): lines 163-197.
\* fresh: p0 is one of P0s and lnprob0, lnlike0 are None; otherwise the
\* caller passes the last yielded triple back in.
Begin(its, th, store, fresh, p0) ==
    /\ pc \in {"idle", "done", "error"}
    /\ ncalls < MaxCalls
    /\ fresh \/ yields > 0
    /\ store => FirstSlot(chain) + nsave(its, th) <= MaxStored
    /\ IF fresh
       THEN /\ p' = p0
            /\ lnprob' = InitialPost(p0)
            /\ logl' = InitialLike(p0)
       ELSE UNCHANGED <<p, lnprob, logl>>
    /\ iterations' = its /\ thin' = th /\ storechain' = store
    /\ IF store
       THEN /\ isave' = FirstSlot(chain)
            /\ chain' = Expand(chain, nsave(its, th), 0)
            /\ lnprobChain' = Expand(lnprobChain, nsave(its, th), Fin(0))
            /\ lnlikeChain' = Expand(lnlikeChain, nsave(its, th), Fin(0))
            /\ recIter' = recIter \o Fill(nsave(its, th), 0)
            /\ recCall' = recCall \o Fill(nsave(its, th), ncalls + 1)
            /\ shown' = shown \o Fill(nsave(its, th), NoTriple)
            /\ want' = want + (its \div th)
       ELSE /\ isave' = 0
            /\ UNCHANGED <<chain, lnprobChain, lnlikeChain, recIter, recCall, shown, want>>
    /\ i' = 0 /\ j' = 0
    /\ pc' = IF 0 < its THEN "advance" ELSE "done"
    /\ ncalls' = ncalls + 1 /\ yields' = 0 /\ events' = <<>>
    /\ lastOp' = "begin"
    /\ UNCHANGED <<betas, okBefore, nswap, nswap_accepted, si, sj, dropped>>

Ev(op, arg) == [op |-> op, arg |-> arg]

\* --------------------------------------------- sample: one iteration
\* The Advancer (EnsembleSampler.sample, one step) on one rung: every walker
\* stays where it is or moves to a proposed position whose tempered posterior
\* is not -infinity; a moved walker carries PTPost of its new position.
\* mv[w] = 0 keeps walker w in place.
Moves(r) == { mv \in [Walkers -> {0} \cup Positions] :
                \A w \in Walkers : mv[w] # 0 => PTPost(betas[r], mv[w])[1] # NInf }

\* IEEE equality: NaN equals nothing.
FEq(a, b) == ~IsNaN(a) /\ ~IsNaN(b) /\ a = b

\* lnpost = beta*lnlike + lnprior for every walker of every rung
\* (the docstring of PTPost, lines 22-23 and 39).
Consistent(pp, lp, ll) ==
    \A r \in Rungs, w \in Walkers :
        FEq(lp[r][w], FAdd(FScale(betas[r], ll[r][w]), FScale(BetaDen, logp_fn(pp[r][w]))))

\* Mutant of AfterRung: the exchange starts before the last rung advanced.
AfterRung_early(r) ==
    IF r + 1 < NTemps - 1 THEN "advance"
    ELSE IF NTemps - 1 >= 1 THEN "swap" ELSE "record"

\* Line 198: the rung loop; after the last rung line 204 enters
\* _temperature_swaps, whose boundary loop (line 221) is empty for one rung.
AfterRung(r) ==
    IF r + 1 < NTemps THEN "advance"
    ELSE IF NTemps - 1 >= 1 THEN "swap" ELSE "record"

\* Lines 198-202.
Advance(mv) ==
    /\ pc = "advance"
    /\ mv \in Moves(j)
    /\ p' = [p EXCEPT ![j] = [w \in Walkers |-> IF mv[w] = 0 THEN p[j][w] ELSE mv[w]]]
    /\ lnprob' = [lnprob EXCEPT ![j] =
                    [w \in Walkers |-> IF mv[w] = 0 THEN lnprob[j][w]
                                       ELSE PTPost(betas[j], mv[w])[1]]]
    /\ logl' = [logl EXCEPT ![j] =
                    [w \in Walkers |-> IF mv[w] = 0 THEN logl[j][w]
                                       ELSE PTPost(betas[j], mv[w])[2]]]
    /\ pc' = AfterRung(j)
    /\ IF AfterRung(j) = "advance"
       THEN j' = j + 1 /\ UNCHANGED <<si, sj>>
       ELSE j' = j /\ si' = NTemps - 1 /\ sj' = 0
    /\ events' = Append(events, Ev("advance", j))
    /\ okBefore' = IF AfterRung(j) = "advance" THEN okBefore ELSE Consistent(p', lnprob', logl')
    /\ lastOp' = "advance"
    /\ UNCHANGED <<betas, want, dropped, chain, lnprobChain, lnlikeChain, nswap, nswap_accepted,
                   iterations, thin, storechain, isave, i, ncalls, yields,
                   recIter, recCall, shown>>

\* Values log(nr.rand()) can take: rand() is in [0, 1), so its log is
\* -infinity or a negative number.
LogU == {NInf, Fin(-1), Fin(-100)}

\* Line 225.
dbeta(b) == betas[b - 1] - betas[b]

\* Line 234.
paccept(b, ii, jj) == FScale(dbeta(b), FSub(logl[b][ii], logl[b - 1][jj]))

\* Line 236.
Accepts(pa, logu) == FGreater(pa, Fin(0)) \/ FLess(logu, pa)

\* Mutant of SwapP: the upper position is overwritten before it was copied,
\* so both walkers end at the lower rung's position.
SwapP_no_copy(b, ii, jj) == [p EXCEPT ![b][ii] = p[b - 1][jj]]

\* Lines 243-244 and 248: the two positions change places.
SwapP(b, ii, jj) == [p EXCEPT ![b][ii] = p[b - 1][jj], ![b - 1][jj] = p[b][ii]]

\* Lines 245 and 249.
SwapLogl(b, ii, jj) == [logl EXCEPT ![b][ii] = logl[b - 1][jj], ![b - 1][jj] = logl[b][ii]]

\* Lines 246 and 250: each log-posterior is moved to the other rung's beta.
SwapLnprob(b, ii, jj) ==
    [lnprob EXCEPT
        ![b][ii] = FSub(lnprob[b - 1][jj], FScale(dbeta(b), logl[b - 1][jj])),
        ![b - 1][jj] = FAdd(lnprob[b][ii], FScale(dbeta(b), logl[b][ii]))]

\* Mutant of Attempted: only the upper rung's attempt is counted.
Attempted_upper(b) == [nswap EXCEPT ![b] = @ + 1]

\* Lines 228-229.
Attempted(b) == [nswap EXCEPT ![b] = @ + 1, ![b - 1] = @ + 1]

\* Mutant of Accepted: an accepted swap is not counted.
Accepted_forgotten(b) == nswap_accepted

\* Lines 237-238.
Accepted(b) == [nswap_accepted EXCEPT ![b] = @ + 1, ![b - 1] = @ + 1]

\* Mutant of MoreTrials: the trial loop stops one walker short.
MoreTrials_short(jw) == jw + 2 < NWalkers

\* Line 227: range(nwalkers).
MoreTrials(jw) == jw + 1 < NWalkers

\* One pass of the trial loop body of _temperature_swaps (lines 227-250) at
\* boundary (si, si-1), with the random draws ii, jj and log(rand()).
SwapTrial(ii, jj, logu) ==
    /\ pc = "swap"
    /\ nswap' = Attempted(si)
    /\ IF Accepts(paccept(si, ii, jj), logu)
       THEN /\ nswap_accepted' = Accepted(si)
            /\ p' = SwapP(si, ii, jj)
            /\ logl' = SwapLogl(si, ii, jj)
            /\ lnprob' = SwapLnprob(si, ii, jj)
       ELSE UNCHANGED <<nswap_accepted, p, logl, lnprob>>
    /\ IF MoreTrials(sj)
       THEN sj' = sj + 1 /\ si' = si /\ pc' = "swap"
       ELSE /\ sj' = 0
            /\ si' = si - 1
            /\ pc' = IF si - 1 >= 1 THEN "swap" ELSE "record"
    /\ events' = Append(events, Ev("swap", si))
    /\ lastOp' = "swap"
    /\ UNCHANGED <<betas, okBefore, want, dropped, chain, lnprobChain, lnlikeChain, iterations, thin,
                   storechain, isave, i, j, ncalls, yields, recIter, recCall, shown>>

\* Mutant of Records: the 0-based loop index is tested instead of i+1.
Records_zero_based(it, th) == it % th = 0

\* Line 206.
Records(it, th) == (it + 1) % th = 0

\* Lines 208-210: the current grid goes into slot isave (0-based).
Store(buf, slot, grid) == Buffer([buf.steps EXCEPT ![slot + 1] = grid])

\* Mutant of Record: the storechain flag is not tested.
Record_ignores_storechain ==
    /\ pc = "record"
    /\ IF Records(i, thin)
       THEN IF chain.present /\ isave < Len(chain.steps)
            THEN /\ chain' = Store(chain, isave, p)
                 /\ lnprobChain' = Store(lnprobChain, isave, lnprob)
                 /\ lnlikeChain' = Store(lnlikeChain, isave, logl)
                 /\ isave' = isave + 1
                 /\ recIter' = [recIter EXCEPT ![isave + 1] = i + 1]
                 /\ events' = Append(events, Ev("record", isave))
                 /\ pc' = "toyield"
                 /\ dropped' = dropped
            ELSE /\ pc' = "error"
                 /\ dropped' = TRUE
                 /\ UNCHANGED <<chain, lnprobChain, lnlikeChain, isave, recIter, events>>
       ELSE /\ pc' = "toyield"
            /\ UNCHANGED <<chain, lnprobChain, lnlikeChain, isave, recIter, events, dropped>>
    /\ lastOp' = "record"
    /\ UNCHANGED <<betas, okBefore, want, nswap, nswap_accepted, p, lnprob, logl, iterations, thin,
                   storechain, i, j, si, sj, ncalls, yields, recCall, shown>>

\* Lines 206-211.  A reset while the generator was suspended left the
\* buffers None, and storing into None raises (the generator is then dead).
Record ==
    /\ pc = "record"
    /\ IF Records(i, thin) /\ storechain
       THEN IF chain.present /\ isave < Len(chain.steps)
            THEN /\ chain' = Store(chain, isave, p)
                 /\ lnprobChain' = Store(lnprobChain, isave, lnprob)
                 /\ lnlikeChain' = Store(lnlikeChain, isave, logl)
                 /\ isave' = isave + 1
                 /\ recIter' = [recIter EXCEPT ![isave + 1] = i + 1]
                 /\ events' = Append(events, Ev("record", isave))
                 /\ pc' = "toyield"
                 /\ dropped' = dropped
            ELSE /\ pc' = "error"
                 /\ dropped' = TRUE
                 /\ UNCHANGED <<chain, lnprobChain, lnlikeChain, isave, recIter, events>>
       ELSE /\ pc' = "toyield"
            /\ UNCHANGED <<chain, lnprobChain, lnlikeChain, isave, recIter, events, dropped>>
    /\ lastOp' = "record"
    /\ UNCHANGED <<betas, okBefore, want, nswap, nswap_accepted, p, lnprob, logl, iterations, thin,
                   storechain, i, j, si, sj, ncalls, yields, recCall, shown>>

HasRecorded == \E k \in 1 .. Len(events) : events[k].op = "record"

\* Line 213: the triple is handed to the consumer and the generator waits.
Yield ==
    /\ pc = "toyield"
    /\ pc' = "suspended"
    /\ yields' = yields + 1
    /\ events' = Append(events, Ev("yield", i))
    /\ shown' = IF HasRecorded
                THEN [shown EXCEPT ![isave] = [p |-> p, lnprob |-> lnprob, logl |-> logl]]
                ELSE shown
    /\ lastOp' = "yield"
    /\ UNCHANGED <<betas, okBefore, want, dropped, chain, lnprobChain, lnlikeChain, nswap, nswap_accepted,
                   p, lnprob, logl, iterations, thin, storechain, isave, i, j, si, sj,
                   ncalls, recIter, recCall>>

\* Mutant of More: the loop runs one iteration too many.
More_inclusive(it, its) == it + 1 <= its

\* Line 197: range(iterations).
More(it, its) == it + 1 < its

\* The consumer asks for the next triple: the loop of line 197 goes on or
\* the generator is exhausted (StopIteration).
Resume ==
    /\ pc = "suspended"
    /\ IF More(i, iterations)
       THEN i' = i + 1 /\ j' = 0 /\ pc' = "advance" /\ events' = <<>>
       ELSE pc' = "done" /\ UNCHANGED <<i, j, events>>
    /\ lastOp' = "resume"
    /\ UNCHANGED <<betas, okBefore, want, dropped, chain, lnprobChain, lnlikeChain, nswap, nswap_accepted,
                   p, lnprob, logl, iterations, thin, storechain, isave, si, sj,
                   ncalls, yields, recIter, recCall, shown>>

\* The consumer stops consuming and drops the suspended generator.
Abandon ==
    /\ pc = "suspended"
    /\ pc' = "idle"
    /\ lastOp' = "abandon"
    /\ dropped' = (dropped \/ (storechain /\ chain.present /\ More(i, iterations)))
    /\ UNCHANGED <<betas, okBefore, want, chain, lnprobChain, lnlikeChain, nswap, nswap_accepted,
                   p, lnprob, logl, iterations, thin, storechain, isave, i, j, si, sj,
                   ncalls, yields, events, recIter, recCall, shown>>

\* Mutant of Reset: the accepted counters are not zeroed.
Reset_keeps_accepted ==
    /\ pc \in {"idle", "done", "error", "suspended"}
    /\ nswap' = ZeroCounters
    /\ chain' = None /\ lnprobChain' = None /\ lnlikeChain' = None
    /\ recIter' = <<>> /\ recCall' = <<>> /\ shown' = <<>>
    /\ lastOp' = "reset" /\ want' = 0 /\ dropped' = FALSE
    /\ UNCHANGED <<betas, okBefore, nswap_accepted, p, lnprob, logl, iterations, thin,
                   storechain, isave, i, j, si, sj, pc, ncalls, yields, events>>

\* PTSampler.reset (lines 119-127); the caller can run it whenever no
\* generator is executing.
Reset ==
    /\ pc \in {"idle", "done", "error", "suspended"}
    /\ nswap' = ZeroCounters
    /\ nswap_accepted' = ZeroCounters
    /\ chain' = None /\ lnprobChain' = None /\ lnlikeChain' = None
    /\ recIter' = <<>> /\ recCall' = <<>> /\ shown' = <<>>
    /\ lastOp' = "reset" /\ want' = 0 /\ dropped' = FALSE
    /\ UNCHANGED <<betas, okBefore, p, lnprob, logl, iterations, thin, storechain, isave,
                   i, j, si, sj, pc, ncalls, yields, events>>

\* ------------------------------------------------ the random stream
\* numpy's generator is a deterministic stream fixed by its seed; a small
\* multiplicative congruential generator (period 16) stands for it.  One
\* state of the stream supplies the draws of one step.
Seeds == {1, 5}
NextRng(s) == (3 * s) % 17

\* Lines 231, 232 and 236: nr.randint(nwalkers) twice and log(nr.rand()).
DrawII(s) == s % NWalkers
DrawJJ(s) == (s \div 2) % NWalkers
DrawLogU(s) == CASE s % 3 = 0 -> NInf [] s % 3 = 1 -> Fin(-1) [] OTHER -> Fin(-100)

\* The Advancer's own draws: which walker it tries to move and where to
\* (the move is rejected, and the rung left alone, if that is no move of
\* Moves).
DrawMove(s) == [w \in Walkers |-> IF w = s % NWalkers THEN (s \div 2) % 3 ELSE 0]

\* What a step of the sampler leaves of the caller's side: the module
\* global stays, the result of an earlier query is gone, and an exchange
\* call that returned (line 252) is counted until the next reset.
Aside ==
    /\ acor' = acor
    /\ out' = NoOut
    /\ swept' = IF lastOp' = "reset" THEN 0
                ELSE IF pc = "swap" /\ pc' = "record" THEN swept + 1
                ELSE swept

\* The orchestration is checked on the strictly decreasing ladder.
Init == InitSampler /\ betas[1] < betas[0] /\ rng \in Seeds /\ acor = TRUE

SeededAdvance ==
    /\ Advance(IF DrawMove(rng) \in Moves(j) THEN DrawMove(rng) ELSE [w \in Walkers |-> 0])
    /\ rng' = NextRng(rng)
    /\ Aside

SeededSwapTrial ==
    /\ SwapTrial(DrawII(rng), DrawJJ(rng), DrawLogU(rng))
    /\ rng' = NextRng(rng)
    /\ Aside

Next ==
    \/ \E its \in 0 .. MaxIter, th \in 1 .. MaxThin, store \in BOOLEAN,
          fresh \in BOOLEAN :
            Begin(its, th, store, fresh, P0Outside) /\ UNCHANGED rng /\ Aside
    \/ SeededAdvance
    \/ SeededSwapTrial
    \/ Record /\ UNCHANGED rng /\ Aside
    \/ Yield /\ UNCHANGED rng /\ Aside
    \/ Resume /\ UNCHANGED rng /\ Aside
    \/ Abandon /\ UNCHANGED rng /\ Aside
    \/ Reset /\ UNCHANGED rng /\ Aside

Spec == Init /\ [][Next]_vars

\* ------------------------------------------- the exchange, any draws
\* Calls sample(p0, storechain=False) with the default iterations = 1 and
\* thin = 1 (line 129) on either ladder, from either p0; every draw of the
\* exchange and every move of the Advancer is possible.
InitExchange == InitSampler /\ rng = 1 /\ acor = TRUE

FreeAdvance == \E mv \in [Walkers -> {0} \cup Positions] : Advance(mv)

FreeSwapTrial == \E ii \in Walkers, jj \in Walkers, logu \in LogU : SwapTrial(ii, jj, logu)

NextExchange ==
    \/ \E p0 \in P0s : Begin(1, 1, FALSE, TRUE, p0) /\ UNCHANGED rng /\ Aside
    \/ FreeAdvance /\ UNCHANGED rng /\ Aside
    \/ FreeSwapTrial /\ UNCHANGED rng /\ Aside
    \/ Record /\ UNCHANGED rng /\ Aside
    \/ Yield /\ UNCHANGED rng /\ Aside
    \/ Resume /\ UNCHANGED rng /\ Aside
    \/ Abandon /\ UNCHANGED rng /\ Aside
    \/ Reset /\ UNCHANGED rng /\ Aside

SpecExchange == InitExchange /\ [][NextExchange]_vars

\* ------------------------------------------------------- the queries
\* Everything but the result of the last query.
sampler == <<betas, chain, lnprobChain, lnlikeChain, nswap, nswap_accepted,
             p, lnprob, logl, iterations, thin, storechain, isave, i, j, si, sj,
             pc, ncalls, yields, events, recIter, recCall, shown, okBefore,
             lastOp, want, dropped, rng, acor, swept>>

\* The caller can query the sampler whenever no generator is executing.
CanQuery == pc \in {"idle", "done", "error", "suspended"}

\* Mutant of FDiv: the counters are integers, and dividing by zero raises.
FDiv_int(a, b) == IF b = 0 THEN <<"ZeroDivisionError", 0>> ELSE <<"ratio", a, b>>

\* Line 282: the quotient of two float arrays, element by element.  The
\* counters hold whole numbers >= 0; a quotient with a non-zero divisor is
\* kept as the pair it is the ratio of, 0/0 is NaN and a/0 is +infinity.
FDiv(a, b) == IF b = 0 THEN (IF a = 0 THEN NaN ELSE PInf) ELSE <<"ratio", a, b>>

\* Lines 279-282: the property tswap_acceptance_fraction.
TswapFraction ==
    /\ CanQuery
    /\ out' = [op |-> "tswap_acceptance_fraction",
               value |-> [r \in Rungs |-> FDiv(nswap_accepted[r], nswap[r])]]
    /\ UNCHANGED sampler

\* Mutant of acor_property: the chain is sliced before the module is tested.
acor_property_chain_first(mod, ch) ==
    IF ~ch.present THEN "TypeError" ELSE IF ~mod THEN "ImportError" ELSE "matrix"

\* Lines 295-304: ImportError without the module; with it, the estimator of
\* the acor library runs on slices of self._chain ("matrix" stands for what
\* it returns), and slicing None raises TypeError.
acor_property(mod, ch) ==
    IF ~mod THEN "ImportError" ELSE IF ~ch.present THEN "TypeError" ELSE "matrix"

\* Lines 290-304: the property acor.
AcorQuery ==
    /\ CanQuery
    /\ out' = [op |-> "acor", value |-> acor_property(acor, chain)]
    /\ UNCHANGED sampler

\* PTPost(logl, logp, beta)(x) for a beta n/BetaDen of [0, 1], called
\* on its own before any sampling.
Evaluate(b, x) ==
    /\ pc = "idle" /\ ncalls = 0
    /\ out' = [op |-> "PTPost", beta |-> b, x |-> x, value |-> PTPost(b, x)]
    /\ UNCHANGED sampler

\* np.linspace(start, stop, num) for whole start and stop whose difference
\* num - 1 divides: num evenly spaced values, both ends included; one value,
\* start, for num = 1.  Indexed from 0.
linspace(start, stop, num) ==
    [k \in 0 .. (num - 1) |->
        IF num = 1 THEN start ELSE start + (k * (stop - start)) \div (num - 1)]

\* Mutant of exponential_beta_ladder: the factor 0.5 is dropped, so that
\* adjacent rungs differ by a factor 2.
exponential_beta_ladder_octave(ntemps) == linspace(0, 0 - (ntemps - 1) * 2, ntemps)

\* Line 112.  An entry e of the result stands for exp(e * 0.5 * log(2)),
\* that is 2^(e/2): the ladder is held by its exponents in units of
\* 0.5*log(2), in which np.exp is increasing and exp(0) = 1.
exponential_beta_ladder(ntemps) == linspace(0, 0 - (ntemps - 1), ntemps)

\* Largest ntemps the default ladder is built for.
MaxLadder == 4

\* Line 96: the ladder the constructor builds when no betas are given.
DefaultLadder(n) ==
    /\ pc = "idle" /\ ncalls = 0
    /\ out' = [op |-> "exponential_beta_ladder", ntemps |-> n,
               value |-> exponential_beta_ladder(n)]
    /\ UNCHANGED sampler

\* Burn-in fractions f/BurninDen of [0, 1) a caller may pass as fburnin.
BurninDen == 4
FBurnins == 0 .. (BurninDen - 1)

\* Line 325: np.concatenate is handed the ladder itself as the sequence of
\* arrays to join, whose elements are scalars and cannot be concatenated,
\* and the array [0] as the axis: the call raises instead of appending 0.
concatenate(seq_of_scalars) == IF seq_of_scalars THEN "ValueError" ELSE "array"

\* Line 328: int(S*fburnin) + 1.
istart(S, f) == (S * f) \div BurninDen + 1

\* Line 330: the number of steps in the slice [istart:] of S steps.
Retained(S, from) == IF from < S THEN S - from ELSE 0

\* Lines 306-330: thermodynamic_integration_log_evidence(fburnin).  used is
\* the number of recorded steps that went into the mean of line 330.
Evidence(f) ==
    /\ CanQuery
    /\ out' =
         LET S == Len(lnlikeChain.steps)
         IN  IF concatenate(TRUE) = "ValueError"
             THEN [op |-> "evidence", fburnin |-> f, steps |-> S,
                   raised |-> "ValueError", used |-> 0]
             ELSE IF ~lnlikeChain.present
             THEN [op |-> "evidence", fburnin |-> f, steps |-> S,
                   raised |-> "AttributeError", used |-> 0]
             ELSE [op |-> "evidence", fburnin |-> f, steps |-> S,
                   raised |-> "none", used |-> Retained(S, istart(S, f))]
    /\ UNCHANGED sampler

\* Short storing and non-storing calls with thin = 1 from fresh positions,
\* on the decreasing ladder, with and without the acor module, and every
\* query between the steps of the caller.
InitQuery == InitSampler /\ betas[1] < betas[0] /\ rng \in Seeds /\ acor \in BOOLEAN

NextQuery ==
    \/ \E its \in 1 .. MaxIter, store \in BOOLEAN :
            Begin(its, 1, store, TRUE, P0Outside) /\ UNCHANGED rng /\ Aside
    \/ SeededAdvance
    \/ SeededSwapTrial
    \/ Record /\ UNCHANGED rng /\ Aside
    \/ Yield /\ UNCHANGED rng /\ Aside
    \/ Resume /\ UNCHANGED rng /\ Aside
    \/ Abandon /\ UNCHANGED rng /\ Aside
    \/ Reset /\ UNCHANGED rng /\ Aside
    \/ TswapFraction
    \/ AcorQuery
    \/ \E b \in 0 .. BetaDen, x \in Positions : Evaluate(b, x)
    \/ \E n \in 1 .. MaxLadder : DefaultLadder(n)
    \/ \E f \in FBurnins : Evidence(f)

SpecQuery == InitQuery /\ [][NextQuery]_vars

\* ================================================================ claims
Running == pc \in {"advance", "swap", "record", "toyield"}

\* C1: a call sample(p0, iterations=I, thin=T) consumed to exhaustion yields
\* exactly I triples, one after each completed iteration, and then stops;
\* for I = 0 it yields nothing.  (yields counts the triples of the current
\* call, i the iterations it has completed before the running one.)
C1_YieldsOncePerIteration ==
    /\ yields <= iterations
    /\ Running => (yields = i /\ i < iterations)
    /\ pc = "suspended" => yields = i + 1
    /\ pc = "done" => yields = iterations

C1_Witness ==
    pc = "done" /\ lastOp = "resume" /\ iterations = MaxIter /\ yields = MaxIter

AdvancedBefore(k) == { events[m].arg : m \in { n \in 1 .. (k - 1) : events[n].op = "advance" } }
SwapsBefore(k) == Cardinality({ m \in 1 .. (k - 1) : events[m].op = "swap" })

\* C2: in every iteration the exchange runs after all ntemps rungs have been
\* advanced and is complete (all nwalkers trials of every boundary) before
\* the state is recorded and before it is yielded; no rung is advanced once
\* the exchange has begun, and recording precedes the yield.
C2_ExchangeAfterAdvanceBeforeRecord ==
    \A k \in 1 .. Len(events) :
        /\ events[k].op = "swap" => AdvancedBefore(k) = Rungs
        /\ events[k].op \in {"record", "yield"} =>
              /\ AdvancedBefore(k) = Rungs
              /\ SwapsBefore(k) = (NTemps - 1) * NWalkers
        /\ events[k].op = "advance" => \A m \in 1 .. (k - 1) : events[m].op = "advance"
        /\ events[k].op = "record" => \A m \in 1 .. (k - 1) : events[m].op # "yield"

C2_Witness ==
    /\ pc = "suspended" /\ HasRecorded
    /\ Len(events) = NTemps + (NTemps - 1) * NWalkers + 2

SlotsOf(c) == { s \in 1 .. Len(recCall) : recCall[s] = c }

\* C3: a storing call with iterations = I and thin = T, consumed to
\* exhaustion, records exactly floor(I/T) steps, at its own iterations
\* T, 2T, 3T, ... (1-based), whatever earlier calls did.
C3_ThinnedRecording ==
    (pc = "done" /\ storechain /\ chain.present) =>
        LET mine == SlotsOf(ncalls)
            before == Len(recCall) - Cardinality(mine)
        IN  /\ Cardinality({ s \in mine : recIter[s] > 0 }) = iterations \div thin
            /\ \A s \in mine : recIter[s] = (s - before) * thin

C3_Witness ==
    /\ pc = "done" /\ storechain /\ chain.present
    /\ ncalls = 2 /\ iterations = 2 /\ thin = 2
    /\ Len(recIter) = 3 /\ recIter[3] = 2 /\ recCall[1] = 1

\* The recording iteration of slot s has yielded its triple.
Shown(s) == recIter[s] > 0 /\ ~(pc = "toyield" /\ HasRecorded /\ s = isave)

\* C4: after storing calls with parameters (I_k, T_k) and no reset between
\* them, the three buffers hold sum_k floor(I_k/T_k) steps, each step a grid
\* over (ntemps, nwalkers); every recorded step equals the triple yielded by
\* the iteration that recorded it, and when every call was consumed to
\* exhaustion every step is a recorded one.
C4_ChainShapeAndContent ==
    /\ lnprobChain.present = chain.present /\ lnlikeChain.present = chain.present
    /\ chain.present =>
          /\ Len(chain.steps) = want
          /\ Len(lnprobChain.steps) = want
          /\ Len(lnlikeChain.steps) = want
    /\ \A s \in 1 .. Len(chain.steps) :
          /\ DOMAIN chain.steps[s] = Rungs
          /\ \A r \in Rungs : DOMAIN chain.steps[s][r] = Walkers
          /\ Shown(s) =>
                /\ chain.steps[s] = shown[s].p
                /\ lnprobChain.steps[s] = shown[s].lnprob
                /\ lnlikeChain.steps[s] = shown[s].logl
    /\ (pc \in {"done", "idle"} /\ ~dropped) =>
          \A s \in 1 .. Len(chain.steps) : recIter[s] > 0

C4_Witness ==
    /\ pc = "done" /\ ncalls = 2 /\ ~dropped /\ chain.present
    /\ Len(chain.steps) = 3 /\ recCall[1] = 1 /\ recCall[3] = 2
    /\ chain.steps[1] # chain.steps[3] /\ chain.steps[1] # chain.steps[2]

\* C5: a sample call only appends along the step axis: every step that was
\* in the buffers before the call keeps its content at every step of the
\* call, in all three buffers.
C5_LaterCallOnlyAppends ==
    [][ lastOp' # "reset" =>
          \A s \in 1 .. Len(chain.steps) :
              recCall[s] < ncalls' =>
                  /\ chain'.present /\ s <= Len(chain'.steps)
                  /\ chain'.steps[s] = chain.steps[s]
                  /\ lnprobChain'.steps[s] = lnprobChain.steps[s]
                  /\ lnlikeChain'.steps[s] = lnlikeChain.steps[s] ]_vars

C5_Witness ==
    /\ lastOp = "record" /\ ncalls = 2
    /\ \E s, t \in 1 .. Len(recIter) :
          recCall[s] = 1 /\ recIter[s] > 0 /\ recCall[t] = 2 /\ recIter[t] > 0

\* C6: when the consumer stops at an iteration boundary, the buffers hold
\* only iterations that were actually recorded.
C6_AbandonLeavesOnlyRecordedSteps ==
    lastOp = "abandon" => \A s \in 1 .. Len(recIter) : recIter[s] > 0

\* C7: after any calls, reset leaves the three buffers absent and every
\* attempted and accepted swap counter zero.
C7_ResetClears ==
    lastOp = "reset" =>
        /\ chain = None /\ lnprobChain = None /\ lnlikeChain = None
        /\ \A r \in Rungs : nswap[r] = 0 /\ nswap_accepted[r] = 0

C7_Witness == lastOp = "reset" /\ ncalls = 2 /\ yields > 0 /\ pc = "suspended"

\* C8: in every reachable state, also in the middle of an exchange,
\* 0 <= nswap_accepted[r] <= nswap[r] for every rung r.
C8_AcceptedWithinAttempted ==
    \A r \in Rungs : 0 <= nswap_accepted[r] /\ nswap_accepted[r] <= nswap[r]

C8_Witness ==
    /\ pc = "swap" /\ lastOp = "swap" /\ ncalls = 2
    /\ nswap_accepted[NTemps - 1] = nswap[NTemps - 1]
    /\ nswap_accepted[0] > 0 /\ nswap_accepted[0] < nswap[0]

\* C9: at a boundary whose two rungs have the same beta (dbeta = 0) every
\* swap trial is accepted, whatever walkers and draw were chosen and
\* whatever log-likelihoods the two walkers hold.
C9_EqualBetasAlwaysSwap ==
    [][ (lastOp' = "swap" /\ dbeta(si) = 0) =>
            nswap_accepted'[si] = nswap_accepted[si] + 1 ]_vars

\* C10: if lnpost = beta*lnlike + lnprior holds for every walker of every
\* rung when an exchange call starts, it holds for every walker when the
\* call returns.
C10_ExchangeKeepsPosteriorConsistent ==
    (pc = "record" /\ okBefore) => Consistent(p, lnprob, logl)

\* C11: the swap-acceptance fraction is NaN, and no error, for every rung
\* whose attempted counter is zero (before any iteration, after a reset),
\* and accepted/attempted for every other rung.
C11_SwapFractionNaNOnZeroAttempts ==
    out.op = "tswap_acceptance_fraction" =>
        \A r \in Rungs :
            out.value[r] = IF nswap[r] = 0 THEN NaN
                           ELSE <<"ratio", nswap_accepted[r], nswap[r]>>

C11_Witness ==
    /\ out.op = "tswap_acceptance_fraction"
    /\ lastOp = "reset" /\ yields > 0
    /\ \A r \in Rungs : out.value[r] = NaN

\* C12: without the acor module the acor query raises ImportError in every
\* state of the sampler (before sampling, with a recorded chain, after a
\* reset) and never returns a value.
C12_AcorUnavailableAlwaysRaises ==
    (out.op = "acor" /\ ~acor) => out.value = "ImportError"

C12_Witness ==
    /\ out.op = "acor" /\ ~acor /\ out.value = "ImportError"
    /\ chain.present /\ Len(chain.steps) > 0 /\ pc = "done"

\* C13: PTPost at x returns (beta*lnlike(x) + lnprior(x), lnlike(x)) when
\* lnprior(x) is finite, and (-infinity, -infinity) without calling the
\* likelihood when lnprior(x) is -infinity.
C13_TemperedPosterior ==
    out.op = "PTPost" =>
        /\ IsFin(logp_fn(out.x)) =>
              out.value = <<FAdd(FScale(out.beta, logl_fn(out.x)),
                                 FScale(BetaDen, logp_fn(out.x))),
                            logl_fn(out.x), <<"logp", "logl">>>>
        /\ logp_fn(out.x) = NInf => out.value = <<NInf, NInf, <<"logp">>>>

C13_Witness ==
    /\ out.op = "PTPost" /\ logp_fn(out.x) = NInf
    /\ out.beta > 0 /\ out.value[3] = <<"logp">>

\* C14: for every ntemps >= 1 the default ladder has ntemps entries, its
\* first entry is 1, and each entry is the one before it times 1/sqrt(2),
\* so beta_k = 2^(-k/2) and the ladder is strictly decreasing.  (In units
\* of 0.5*log(2) of the exponent: entry k is -k.)
C14_DefaultLadder ==
    out.op = "exponential_beta_ladder" =>
        /\ DOMAIN out.value = 0 .. (out.ntemps - 1)
        /\ out.value[0] = 0
        /\ \A k \in 1 .. (out.ntemps - 1) : out.value[k] = out.value[k - 1] - 1
        /\ \A k \in 0 .. (out.ntemps - 1) : out.value[k] = 0 - k

C14_Witness ==
    /\ out.op = "exponential_beta_ladder" /\ out.ntemps >= 3
    /\ out.value[out.ntemps - 1] = 0 - (out.ntemps - 1)

\* C15: with S recorded steps and a burn-in fraction fburnin of [0, 1) the
\* evidence estimator discards exactly floor(S*fburnin) steps and averages
\* over the other S - floor(S*fburnin); with fburnin = 0 it uses them all.
C15_DiscardsBurninFraction ==
    (out.op = "evidence" /\ lnlikeChain.present) =>
        /\ out.raised = "none"
        /\ out.used = out.steps - (out.steps * out.fburnin) \div BurninDen

\* Trials of the running exchange call already made at boundary (b, b-1).
TrialsAt(b) ==
    IF pc # "swap" THEN 0
    ELSE IF b > si THEN NWalkers
    ELSE IF b = si THEN sj
    ELSE 0

\* Boundaries rung r takes part in.
BoundariesOf(r) == {b \in 1 .. (NTemps - 1) : b = r \/ b = r + 1}

RECURSIVE SwapArgs(_)
SwapArgs(ev) ==
    IF ev = <<>> THEN <<>>
    ELSE (IF Head(ev).op = "swap" THEN <<Head(ev).arg>> ELSE <<>>) \o SwapArgs(Tail(ev))

\* C16: an exchange call takes the boundaries (b, b-1) in the order
\* b = ntemps-1, ..., 1, each once, with nwalkers trials each, and every
\* trial adds one to the attempted counter of both rungs: after k completed
\* iterations without a reset the end rungs have k*nwalkers attempts and
\* every interior rung 2*k*nwalkers.
C16_AttemptsPerIteration ==
    /\ \A r \in Rungs :
          nswap[r] = swept * NWalkers * Cardinality(BoundariesOf(r))
                     + (IF r >= 1 THEN TrialsAt(r) ELSE 0)
                     + (IF r + 1 <= NTemps - 1 THEN TrialsAt(r + 1) ELSE 0)
    /\ \A k \in 1 .. Len(SwapArgs(events)) :
          SwapArgs(events)[k] = NTemps - 1 - ((k - 1) \div NWalkers)
    /\ pc \in {"record", "toyield"} => Len(SwapArgs(events)) = (NTemps - 1) * NWalkers

C16_Witness ==
    /\ pc = "suspended" /\ ncalls = 2 /\ swept >= 3
    /\ nswap[0] = swept * NWalkers /\ nswap[NTemps - 1] = swept * NWalkers
    /\ nswap[1] = 2 * swept * NWalkers

\* C17: a swap trial that is not accepted leaves the positions, the
\* log-posteriors and the log-likelihoods of all rungs as they were (the
\* accepted counters tell it from an accepted one); only the attempted
\* counters of the two rungs of its boundary change.
C17_RejectedTrialChangesNothing ==
    [][ (lastOp' = "swap" /\ nswap_accepted' = nswap_accepted) =>
            /\ p' = p /\ lnprob' = lnprob /\ logl' = logl
            /\ nswap' = [nswap EXCEPT ![si] = @ + 1, ![si - 1] = @ + 1]
            /\ chain' = chain /\ lnprobChain' = lnprobChain
            /\ lnlikeChain' = lnlikeChain ]_vars

C17_Witness ==
    /\ lastOp = "swap" /\ pc = "swap" /\ swept = 0
    /\ si = NTemps - 1 /\ sj = 1
    /\ nswap[NTemps - 1] = 1 /\ nswap_accepted[NTemps - 1] = 0

\* The walkers of a joint state as (position, log-likelihood) pairs.
Pairs(pp, ll) == { <<pp[r][w], ll[r][w]>> : r \in Rungs, w \in Walkers }
Count(pp, ll, v) ==
    Cardinality({ rw \in Rungs \X Walkers : <<pp[rw[1]][rw[2]], ll[rw[1]][rw[2]]>> = v })

\* C18: the exchange only permutes walkers: no trial changes the multiset
\* of (position, log-likelihood) pairs over all walkers of all rungs, also
\* when it draws a walker a second time or a rung at both its boundaries,
\* and every rung keeps nwalkers walkers.
C18_ExchangePermutesWalkers ==
    [][ lastOp' = "swap" =>
            /\ \A v \in Pairs(p, logl) \cup Pairs(p', logl') :
                  Count(p, logl, v) = Count(p', logl', v)
            /\ \A r \in Rungs : DOMAIN p'[r] = Walkers /\ DOMAIN logl'[r] = Walkers ]_vars

C18_Witness ==
    /\ lastOp = "swap" /\ pc = "record"
    /\ nswap_accepted[1] >= 3 /\ nswap_accepted[0] >= 1 /\ nswap_accepted[NTemps - 1] >= 1
    /\ p # P0Outside /\ p # P0Inside

\* C19: the swap counters accumulate across sample calls: starting a call
\* changes no counter, no step of a call lowers one, and only reset does.
C19_CountersAccumulate ==
    [][ /\ lastOp' = "begin" =>
              (nswap' = nswap /\ nswap_accepted' = nswap_accepted)
        /\ lastOp' # "reset" =>
              \A r \in Rungs : /\ nswap'[r] >= nswap[r]
                               /\ nswap_accepted'[r] >= nswap_accepted[r] ]_vars

C19_Witness ==
    /\ lastOp = "begin" /\ ncalls = 2 /\ pc = "advance"
    /\ nswap[0] > 0 /\ nswap_accepted[0] > 0

\* C20: a call with storechain = False leaves the chain, log-posterior and
\* log-likelihood buffers exactly as they were (absent stays absent, an
\* existing buffer keeps its length and content) whatever iterations and
\* thin are, while its swap trials still advance the counters.
C20_NoStoreLeavesBuffers ==
    [][ (lastOp' # "reset" /\ ~storechain') =>
            /\ chain' = chain /\ lnprobChain' = lnprobChain
            /\ lnlikeChain' = lnlikeChain
            /\ lastOp' = "swap" =>
                  (nswap'[si] = nswap[si] + 1 /\ nswap'[si - 1] = nswap[si - 1] + 1) ]_vars

C20_Witness ==
    /\ pc = "done" /\ ~storechain /\ iterations = 2 /\ ncalls = 2
    /\ chain.present /\ Len(chain.steps) > 0
    /\ nswap[0] > NWalkers * Len(chain.steps)

====
